---------------------------- MODULE Spec2Model ----------------------------
(***************************************************************************)
(* Resource lifecycle of the RandomX bindings: RandomxCache,               *)
(* RandomxDataset (with its parallel population) and RandomxVm, over the   *)
(* native engine's handles.                                                *)
(*                                                                         *)
(* The native engine is opaque: an allocation returns a fresh handle or    *)
(* NULL, randomx_init_dataset writes the items of the range it is given,   *)
(* a release frees the handle it is given.  The engine side of a handle    *)
(* (fields h, key, mem, rel) is kept apart from the Rust value wrapping it *)
(* (field val).  A dataset also records the key of the cache its items    *)
(* are computed from.  RandomxVm::hash is a call with a beginning and an   *)
(* end, made from two threads; its digest is a function of the items the   *)
(* VM reads and of the input.                                              *)
(***************************************************************************)
EXTENDS Integers, Sequences, FiniteSets

\* ------------------------------------------------------------ bounds
MaxCaches   == 2      \* cache handles the engine hands out in one run
MaxDatasets == 1      \* dataset handles the engine hands out in one run
MaxVms      == 1      \* VM handles the engine hands out in one run
MaxThreads  == 2      \* largest num_threads passed to RandomxDataset::new
MaxCount    == 3      \* largest value of randomx_dataset_item_count()

\* ------------------------------------------------------------ constants
NULL    == 0          \* the null pointer
HARDAES == 2          \* randomx_flags_RANDOMX_FLAG_HARD_AES
FULLMEM == 4          \* randomx_flags_RANDOMX_FLAG_FULL_MEM

CacheIds   == 1..MaxCaches
DatasetIds == 1..MaxDatasets
VmIds      == 1..MaxVms
Threads    == 1..MaxThreads
Keys       == {1, 2}          \* two distinct key byte strings
Inputs     == {1, 2}          \* two distinct input byte strings
Callers    == {1, 2}          \* the threads of the caller
FlagSets   == {0, FULLMEM, FULLMEM + HARDAES}

VARIABLES
    count,      \* randomx_dataset_item_count(): fixed by the engine
    caches,     \* cache handles and the RandomxCache values owning them
    datasets,   \* dataset handles and the RandomxDataset values owning them
    vms,        \* VM handles and the RandomxVm values owning them
    dn,         \* the activation of RandomxDataset::new: its locals, its
                \* position, the ranges passed to randomx_init_dataset
    workers,    \* the threads spawned by RandomxDataset::new
    arcs,       \* strong counts of cache_arc and dataset_arc
    last,       \* the last constructor call: its result, the engine calls it
                \* made, and its flags where the constructor itself reads
                \* them (elsewhere they only go to the engine, whose answer
                \* is any, and are left out)
    hashing,    \* per caller thread, the RandomxVm::hash call it is in
    hashed      \* the last RandomxVm::hash call that returned, its digest

vars == <<count, caches, datasets, vms, dn, workers, arcs, last, hashing, hashed>>

\* ------------------------------------------------------------ flags
\* bitflags' contains(): every bit of `bit` is set in `flags` (single bits).
contains(flags, bit) == (flags \div bit) % 2 = 1

\* ------------------------------------------------------------ engine
Empty == <<>>
\* The dataset item the engine derives from a cache (its key) for an index.
Item(key, idx) == <<key, idx>>

FreeCache   == {c \in CacheIds : caches[c].h = "free"}
FreeDataset == {d \in DatasetIds : datasets[d].h = "free"}
FreeVm      == {v \in VmIds : vms[v].h = "free"}
\* What an allocation can return: NULL, or the next handle never handed out.
Fresh(free) == IF free = {} THEN {} ELSE {CHOOSE x \in free : \A y \in free : x <= y}

NoCache   == [h |-> "free", key |-> 0, rel |-> 0, val |-> "none"]
NoDataset == [h |-> "free", key |-> 0, mem |-> Empty, rel |-> 0, corrupt |-> FALSE,
              val |-> "none"]
NoVm      == [h |-> "free", cache |-> NULL, dataset |-> NULL, rel |-> 0, val |-> "none"]

\* randomx_init_dataset's write of one item: dataset item idx from the cache.
\* A read of a released cache or a write outside the block is undefined.
InitDatasetItem(ds, cache, idx) ==
    IF idx < count /\ cache.h = "init" /\ ds.h = "alloc"
    THEN [ds EXCEPT !.mem[idx] = Item(cache.key, idx)]
    ELSE [ds EXCEPT !.corrupt = TRUE]

\* randomx_init_dataset(dataset, cache, start, n): items start .. start+n-1.
RECURSIVE InitDataset(_, _, _, _)
InitDataset(ds, cache, start, n) ==
    IF n = 0 THEN ds
    ELSE InitDataset(InitDatasetItem(ds, cache, start), cache, start + 1, n - 1)

\* ------------------------------------------------------------ cache.rs
\* RandomxCache::new without its null check.
CacheNewNoNullCheck(cs, key, ret) ==
    [res |-> "Ok",
     caches |-> IF ret = NULL THEN cs
                ELSE [cs EXCEPT ![ret] =
                         [h |-> "init", key |-> key, rel |-> 0, val |-> "owned"]],
     calls |-> <<"randomx_alloc_cache", "randomx_init_cache">>]

\* RandomxCache::new: the table of caches after it, its result, the engine
\* calls it made.  ret is what randomx_alloc_cache returned.
CacheNew(cs, key, ret) ==
    IF ret = NULL
    THEN [res |-> "CacheAllocError", caches |-> cs,
          calls |-> <<"randomx_alloc_cache">>]
    ELSE [res |-> "Ok",
          caches |-> [cs EXCEPT ![ret] =
                         [h |-> "init", key |-> key, rel |-> 0, val |-> "owned"]],
          calls |-> <<"randomx_alloc_cache", "randomx_init_cache">>]

\* Drop for RandomxCache: randomx_release_cache(self.cache).  The memory of
\* a released handle is gone.
DropCache(cs, c) ==
    [cs EXCEPT ![c] = [h |-> "released", key |-> 0, rel |-> @.rel + 1,
                       val |-> "dropped"]]

\* Drop for RandomxDataset: randomx_release_dataset(self.dataset).
DropDataset(ds, d) ==
    [ds EXCEPT ![d] = [h |-> "released", key |-> 0, mem |-> Empty, rel |-> @.rel + 1,
                       corrupt |-> @.corrupt, val |-> "dropped"]]

Idle == [pc |-> "idle", key |-> 0, num_threads |-> 0,
         cache |-> NULL, dataset |-> NULL, size |-> 0, last |-> 0,
         start |-> 0, i |-> 0, j |-> 0, ranges |-> <<>>]
NoWorker == [st |-> "none", start |-> 0, size |-> 0, pos |-> 0]
NoCall == [op |-> "none", flags |-> 0, ret |-> NULL, res |-> "none", calls |-> <<>>]
NoHash == [vm |-> NULL, input |-> 0]
NoDigest == [ok |-> FALSE, items |-> <<>>, input |-> 0, junk |-> 0]
NoHashed == [vm |-> NULL, key |-> 0, input |-> 0, digest |-> NoDigest]

\* The caller's values: the transient cache and the dataset under
\* construction belong to RandomxDataset::new until it returns.
UserCache(c)   == caches[c].val = "owned" /\ c # dn.cache
UserDataset(d) == datasets[d].val = "owned" /\ d # dn.dataset

Init ==
    /\ count \in 0..MaxCount
    /\ caches = [c \in CacheIds |-> NoCache]
    /\ datasets = [d \in DatasetIds |-> NoDataset]
    /\ vms = [v \in VmIds |-> NoVm]
    /\ dn = Idle
    /\ workers = [w \in Threads |-> NoWorker]
    /\ arcs = [cache |-> 0, dataset |-> 0]
    /\ last = NoCall
    /\ hashing = [t \in Callers |-> NoHash]
    /\ hashed = NoHashed

\* let cache = RandomxCache::new(flags, key) by the caller.
CacheNewCall(flags, key, ret) ==
    /\ dn.pc = "idle"
    /\ LET r == CacheNew(caches, key, ret) IN
        /\ caches' = r.caches
        /\ flags \in FlagSets
        /\ last' = [op |-> "RandomxCache::new", flags |-> 0, ret |-> ret,
                    res |-> r.res, calls |-> r.calls]
    /\ UNCHANGED <<count, datasets, vms, dn, workers, arcs, hashing, hashed>>

\* drop(cache) by the caller.  No borrow stands in its way: see VmNew.
CacheDrop(c) ==
    /\ dn.pc = "idle"
    /\ UserCache(c)
    /\ caches' = DropCache(caches, c)
    /\ UNCHANGED <<count, datasets, vms, dn, workers, arcs, last,
                   hashing, hashed>>

\* drop(dataset) by the caller.
DatasetDrop(d) ==
    /\ dn.pc = "idle"
    /\ UserDataset(d)
    /\ datasets' = DropDataset(datasets, d)
    /\ UNCHANGED <<count, caches, vms, dn, workers, arcs, last,
                   hashing, hashed>>

\* ------------------------------------------------------------ vm.rs
\* RandomxVm::new without the check of FULLMEM.
VmNewNoFlagCheck(flags, c, ret) ==
    /\ dn.pc = "idle"
    /\ UserCache(c)
    /\ IF ret = NULL
       THEN /\ last' = [op |-> "RandomxVm::new", flags |-> flags, ret |-> NULL,
                        res |-> "VmAllocError", calls |-> <<"randomx_create_vm">>]
            /\ UNCHANGED vms
       ELSE /\ last' = [op |-> "RandomxVm::new", flags |-> flags, ret |-> ret,
                        res |-> "Ok", calls |-> <<"randomx_create_vm">>]
            /\ vms' = [vms EXCEPT ![ret] =
                          [h |-> "live", cache |-> c, dataset |-> NULL,
                           rel |-> 0, val |-> "owned"]]
    /\ UNCHANGED <<count, caches, datasets, dn, workers, arcs, hashing, hashed>>

\* RandomxVm::new(flags, &cache).  The value returned is Self, whose
\* lifetime is the impl block's anonymous one; the borrow of `cache` is a
\* second anonymous lifetime that ends with the call.  The VM keeps the
\* handle it was created with and no borrow of the RandomxCache.
VmNew(flags, c, ret) ==
    /\ dn.pc = "idle"
    /\ UserCache(c)
    /\ IF contains(flags, FULLMEM)
       THEN /\ last' = [op |-> "RandomxVm::new", flags |-> flags, ret |-> NULL,
                        res |-> "VmAllocError", calls |-> <<>>]
            /\ UNCHANGED vms
       ELSE IF ret = NULL
       THEN /\ last' = [op |-> "RandomxVm::new", flags |-> flags, ret |-> NULL,
                        res |-> "VmAllocError", calls |-> <<"randomx_create_vm">>]
            /\ UNCHANGED vms
       ELSE /\ last' = [op |-> "RandomxVm::new", flags |-> flags, ret |-> ret,
                        res |-> "Ok", calls |-> <<"randomx_create_vm">>]
            /\ vms' = [vms EXCEPT ![ret] =
                          [h |-> "live", cache |-> c, dataset |-> NULL,
                           rel |-> 0, val |-> "owned"]]
    /\ UNCHANGED <<count, caches, datasets, dn, workers, arcs, hashing, hashed>>

\* RandomxVm::new_fast(flags, &dataset): as VmNew, over a RandomxDataset.
VmNewFast(flags, d, ret) ==
    /\ dn.pc = "idle"
    /\ UserDataset(d)
    /\ IF ~contains(flags, FULLMEM)
       THEN /\ last' = [op |-> "RandomxVm::new_fast", flags |-> flags, ret |-> NULL,
                        res |-> "VmAllocError", calls |-> <<>>]
            /\ UNCHANGED vms
       ELSE IF ret = NULL
       THEN /\ last' = [op |-> "RandomxVm::new_fast", flags |-> flags, ret |-> NULL,
                        res |-> "VmAllocError", calls |-> <<"randomx_create_vm">>]
            /\ UNCHANGED vms
       ELSE /\ last' = [op |-> "RandomxVm::new_fast", flags |-> flags, ret |-> ret,
                        res |-> "Ok", calls |-> <<"randomx_create_vm">>]
            /\ vms' = [vms EXCEPT ![ret] =
                          [h |-> "live", cache |-> NULL, dataset |-> d,
                           rel |-> 0, val |-> "owned"]]
    /\ UNCHANGED <<count, caches, datasets, dn, workers, arcs, hashing, hashed>>

\* A drop of the VM that also releases what the VM is bound to.
VmDropBacking(v) ==
    /\ dn.pc = "idle"
    /\ vms[v].val = "owned"
    /\ \A t \in Callers : hashing[t].vm # v
    /\ vms' = [vms EXCEPT ![v] =
                  [@ EXCEPT !.h = "destroyed", !.rel = @ + 1, !.val = "dropped"]]
    /\ caches' = IF vms[v].cache # NULL /\ caches[vms[v].cache].h = "init"
                 THEN DropCache(caches, vms[v].cache) ELSE caches
    /\ datasets' = IF vms[v].dataset # NULL /\ datasets[vms[v].dataset].h = "alloc"
                   THEN DropDataset(datasets, vms[v].dataset) ELSE datasets
    /\ UNCHANGED <<count, dn, workers, arcs, last, hashing, hashed>>

\* Drop for RandomxVm: randomx_destroy_vm(self.vm).  The value is not
\* borrowed: no hash call on it is running.
VmDrop(v) ==
    /\ dn.pc = "idle"
    /\ vms[v].val = "owned"
    /\ \A t \in Callers : hashing[t].vm # v
    /\ vms' = [vms EXCEPT ![v] =
                  [@ EXCEPT !.h = "destroyed", !.rel = @ + 1, !.val = "dropped"]]
    /\ UNCHANGED <<count, caches, datasets, dn, workers, arcs, last,
                   hashing, hashed>>

\* ------------------------------------------------------------ dataset.rs
\* An Arc drop that drops the RandomxCache whatever the strong count.
ArcDropCacheAlways(cs, n, c) == DropCache(cs, c)

\* Dropping one Arc<RandomxCache> whose strong count was n: the last one
\* drops the RandomxCache.
ArcDropCache(cs, n, c) == IF n = 1 THEN DropCache(cs, c) ELSE cs
\* The drop of a clone of dataset_arc that releases the dataset whatever the
\* strong count.
ArcDropDatasetAlways(ds, n, d) == DropDataset(ds, d)

\* Dropping one Arc<RandomxDataset> whose strong count was n.
ArcDropDataset(ds, n, d) == IF n = 1 THEN DropDataset(ds, d) ELSE ds
Dec(n) == IF n > 0 THEN n - 1 ELSE 0
\* The release calls of dropping one Arc of each, the strong counts being a.
ArcReleases(a) ==
    (IF a.cache = 1 THEN <<"randomx_release_cache">> ELSE <<>>)
    \o (IF a.dataset = 1 THEN <<"randomx_release_dataset">> ELSE <<>>)

\* RandomxDataset::new without its assert.
DNCallNoAssert(flags, key, num_threads) ==
    /\ dn.pc = "idle"
    /\ dn' = [Idle EXCEPT !.key = key, !.num_threads = num_threads,
                          !.pc = "cache"]
    /\ flags \in FlagSets
    /\ last' = [op |-> "RandomxDataset::new", flags |-> 0, ret |-> NULL,
                res |-> "none", calls |-> <<>>]
    /\ UNCHANGED <<count, caches, datasets, vms, workers, arcs,
                   hashing, hashed>>

\* RandomxDataset::new(flags, key, num_threads) is entered:
\* assert!(num_threads > 0).
DNCall(flags, key, num_threads) ==
    /\ dn.pc = "idle"
    /\ dn' = [Idle EXCEPT !.key = key, !.num_threads = num_threads,
                          !.pc = IF num_threads > 0 THEN "cache" ELSE "panicked"]
    /\ flags \in FlagSets
    /\ last' = [op |-> "RandomxDataset::new", flags |-> 0, ret |-> NULL,
                res |-> IF num_threads > 0 THEN "none" ELSE "panic", calls |-> <<>>]
    /\ UNCHANGED <<count, caches, datasets, vms, workers, arcs,
                   hashing, hashed>>

\* RandomxCache::new(flags, key) with its error mapped to the constructor's
\* own error kind instead of being propagated by `?`.
DNCacheMapErr(ret) ==
    /\ dn.pc = "cache"
    /\ LET r == CacheNew(caches, dn.key, ret) IN
        /\ caches' = r.caches
        /\ dn' = IF r.res = "Ok"
                 THEN [dn EXCEPT !.pc = "alloc", !.cache = ret]
                 ELSE [dn EXCEPT !.pc = "returned"]
        /\ last' = [last EXCEPT !.calls = @ \o r.calls,
                                !.res = IF r.res = "Ok" THEN @
                                        ELSE "DatasetAllocError"]
    /\ UNCHANGED <<count, datasets, vms, workers, arcs, hashing, hashed>>

\* let cache = RandomxCache::new(flags, key)?;
DNCache(ret) ==
    /\ dn.pc = "cache"
    /\ LET r == CacheNew(caches, dn.key, ret) IN
        /\ caches' = r.caches
        /\ dn' = IF r.res = "Ok"
                 THEN [dn EXCEPT !.pc = "alloc", !.cache = ret]
                 ELSE [dn EXCEPT !.pc = "returned"]
        /\ last' = [last EXCEPT !.calls = @ \o r.calls,
                                !.res = IF r.res = "Ok" THEN @ ELSE r.res]
    /\ UNCHANGED <<count, datasets, vms, workers, arcs, hashing, hashed>>

\* The early return that leaves the transient cache unreleased.
DNAllocNullLeak ==
    /\ dn' = [dn EXCEPT !.pc = "returned"]
    /\ last' = [last EXCEPT !.res = "DatasetAllocError",
                   !.calls = Append(@, "randomx_alloc_dataset")]
    /\ UNCHANGED <<caches, datasets, arcs>>

\* if dataset.is_null() { return Err(DatasetAllocError) }: the scope of
\* cache ends with the return.
DNAllocNull ==
    /\ caches' = DropCache(caches, dn.cache)
    /\ dn' = [dn EXCEPT !.pc = "returned"]
    /\ last' = [last EXCEPT !.res = "DatasetAllocError",
                   !.calls = @ \o <<"randomx_alloc_dataset",
                                    "randomx_release_cache">>]
    /\ UNCHANGED <<datasets, arcs>>

\* randomx_alloc_dataset, the null check, RandomxDataset { dataset },
\* randomx_dataset_item_count, and the set-up of either branch: Arc::new of
\* both values, size, last and start.
DNAlloc(ret) ==
    /\ dn.pc = "alloc"
    /\ IF ret = NULL
       THEN DNAllocNull
       ELSE /\ datasets' = [datasets EXCEPT ![ret] =
                               [h |-> "alloc", key |-> dn.key,
                                mem |-> [x \in 0..(count - 1) |-> Empty],
                                rel |-> 0, corrupt |-> FALSE, val |-> "owned"]]
            /\ dn' = [dn EXCEPT
                        !.pc = IF dn.num_threads = 1 THEN "serial" ELSE "spawn",
                        !.dataset = ret,
                        !.size = IF dn.num_threads = 1 THEN 0
                                 ELSE count \div dn.num_threads,
                        !.last = IF dn.num_threads = 1 THEN 0
                                 ELSE count % dn.num_threads]
            /\ last' = [last EXCEPT !.ret = ret,
                           !.calls = @ \o <<"randomx_alloc_dataset",
                                            "randomx_dataset_item_count">>]
            /\ arcs' = IF dn.num_threads = 1 THEN arcs
                       ELSE [cache |-> 1, dataset |-> 1]
            /\ UNCHANGED caches
    /\ UNCHANGED <<count, vms, workers, hashing, hashed>>

\* num_threads == 1: randomx_init_dataset(dataset.dataset, cache.cache, 0, count)
\* in the calling thread.
DNSerial ==
    /\ dn.pc = "serial"
    /\ datasets' = [datasets EXCEPT ![dn.dataset] =
                       InitDataset(@, caches[dn.cache], 0, count)]
    /\ dn' = [dn EXCEPT !.pc = "ret",
                        !.ranges = Append(@, [start |-> 0, size |-> count])]
    /\ last' = [last EXCEPT !.calls = Append(@, "randomx_init_dataset")]
    /\ UNCHANGED <<count, caches, vms, workers, arcs, hashing, hashed>>

\* ThisSize with the remainder dropped.
ThisSizeNoRemainder(i, num_threads, size, lst) == size

\* ThisSize with the remainder given to the first partition.
ThisSizeFirst(i, num_threads, size, lst) ==
    IF i = 0 THEN size + lst ELSE size

\* ThisSize with every item given to the last partition.
ThisSizeAllLast(i, num_threads, size, lst) ==
    IF i = num_threads - 1 THEN size * num_threads + lst ELSE 0

\* The size of partition i (0-based) of the for loop.
ThisSize(i, num_threads, size, lst) ==
    IF i = num_threads - 1 THEN size + lst ELSE size

\* The loop iteration without `start += this_size`.
DNSpawnNoAdvance ==
    /\ dn.pc = "spawn"
    /\ dn.i < dn.num_threads
    /\ LET this_size == ThisSize(dn.i, dn.num_threads, dn.size, dn.last) IN
        /\ workers' = [workers EXCEPT ![dn.i + 1] =
                          [st |-> "run", start |-> dn.start,
                           size |-> this_size, pos |-> 0]]
        /\ dn' = [dn EXCEPT !.i = @ + 1,
                            !.ranges = Append(@, [start |-> dn.start,
                                                  size |-> this_size]),
                            !.pc = IF dn.i + 1 = dn.num_threads THEN "join" ELSE "spawn"]
    /\ arcs' = [cache |-> arcs.cache + 1, dataset |-> arcs.dataset + 1]
    /\ last' = [last EXCEPT !.calls = Append(@, "randomx_init_dataset")]
    /\ UNCHANGED <<count, caches, datasets, vms, hashing, hashed>>

\* One iteration of `for i in 0..num_threads`: clone both Arcs, spawn the
\* worker on [this_start, this_start + this_size), advance start.
DNSpawn ==
    /\ dn.pc = "spawn"
    /\ dn.i < dn.num_threads
    /\ LET this_size == ThisSize(dn.i, dn.num_threads, dn.size, dn.last) IN
        /\ workers' = [workers EXCEPT ![dn.i + 1] =
                          [st |-> "run", start |-> dn.start,
                           size |-> this_size, pos |-> 0]]
        /\ dn' = [dn EXCEPT !.start = @ + this_size, !.i = @ + 1,
                            !.ranges = Append(@, [start |-> dn.start,
                                                  size |-> this_size]),
                            !.pc = IF dn.i + 1 = dn.num_threads THEN "join" ELSE "spawn"]
    /\ arcs' = [cache |-> arcs.cache + 1, dataset |-> arcs.dataset + 1]
    /\ last' = [last EXCEPT !.calls = Append(@, "randomx_init_dataset")]
    /\ UNCHANGED <<count, caches, datasets, vms, hashing, hashed>>

\* thread::spawn panics when the OS cannot create the thread: the closure is
\* dropped with its clones, the unwinding drops handles (detaching the
\* workers), dataset_arc and cache_arc.
DNSpawnPanic ==
    /\ dn.pc = "spawn"
    /\ dn.i < dn.num_threads
    /\ caches' = ArcDropCache(caches, arcs.cache, dn.cache)
    /\ datasets' = ArcDropDataset(datasets, arcs.dataset, dn.dataset)
    /\ arcs' = [cache |-> Dec(arcs.cache), dataset |-> Dec(arcs.dataset)]
    /\ dn' = [dn EXCEPT !.pc = "panicked"]
    /\ last' = [last EXCEPT !.res = "panic", !.calls = @ \o ArcReleases(arcs)]
    /\ UNCHANGED <<count, vms, workers, hashing, hashed>>

\* A worker's randomx_init_dataset writes its next item.
WorkerWrite(w) ==
    /\ workers[w].st = "run"
    /\ workers[w].pos < workers[w].size
    /\ datasets' = [datasets EXCEPT ![dn.dataset] =
                       InitDatasetItem(@, caches[dn.cache],
                                       workers[w].start + workers[w].pos)]
    /\ workers' = [workers EXCEPT ![w].pos = @ + 1]
    /\ UNCHANGED <<count, caches, vms, dn, arcs, last, hashing, hashed>>

\* A worker's closure ends (how: "done", or "panicked" when it unwinds): its
\* clones of both Arcs are dropped.
WorkerEnd(w, how) ==
    /\ workers[w].st = "run"
    /\ workers' = [workers EXCEPT ![w].st = how]
    /\ caches' = ArcDropCache(caches, arcs.cache, dn.cache)
    /\ datasets' = ArcDropDataset(datasets, arcs.dataset, dn.dataset)
    /\ arcs' = [cache |-> Dec(arcs.cache), dataset |-> Dec(arcs.dataset)]
    /\ last' = [last EXCEPT !.calls = @ \o ArcReleases(arcs)]
    /\ UNCHANGED <<count, vms, dn, hashing, hashed>>

\* randomx_init_dataset returns: the worker's closure ends.
WorkerExit(w) ==
    /\ workers[w].pos = workers[w].size
    /\ WorkerEnd(w, "done")

\* The worker thread unwinds before its call has returned.
WorkerPanic(w) == WorkerEnd(w, "panicked")

\* A join that does not wait for the thread.
JoinedNoWait(w) == workers[w].st # "none"

\* Whether handle.join() of worker w has returned.
Joined(w) == workers[w].st \in {"done", "panicked"}

\* One iteration of `for handle in handles`: let _ = handle.join().
DNJoin ==
    /\ dn.pc = "join"
    /\ dn.j < dn.num_threads
    /\ Joined(dn.j + 1)
    /\ dn' = [dn EXCEPT !.j = @ + 1,
                        !.pc = IF dn.j + 1 = dn.num_threads THEN "unwrap" ELSE "join"]
    /\ UNCHANGED <<count, caches, datasets, vms, workers, arcs, last,
                   hashing, hashed>>

\* dataset = match Arc::try_unwrap(dataset_arc): Ok when this is the only
\* strong reference; otherwise the Arc in Err(_) and cache_arc are dropped
\* and DatasetAllocError is returned.
DNUnwrap ==
    /\ dn.pc = "unwrap"
    /\ IF arcs.dataset = 1
       THEN /\ arcs' = [arcs EXCEPT !.dataset = 0]
            /\ dn' = [dn EXCEPT !.pc = "ret"]
            /\ UNCHANGED <<caches, datasets, last>>
       ELSE /\ caches' = ArcDropCache(caches, arcs.cache, dn.cache)
            /\ datasets' = ArcDropDataset(datasets, arcs.dataset, dn.dataset)
            /\ arcs' = [cache |-> Dec(arcs.cache), dataset |-> Dec(arcs.dataset)]
            /\ dn' = [dn EXCEPT !.pc = "returned"]
            /\ last' = [last EXCEPT !.res = "DatasetAllocError",
                                    !.calls = @ \o ArcReleases(arcs)]
    /\ UNCHANGED <<count, vms, workers, hashing, hashed>>

\* Ok(dataset): the scope of cache (num_threads == 1) or of cache_arc ends.
DNReturn ==
    /\ dn.pc = "ret"
    /\ IF dn.num_threads = 1
       THEN /\ caches' = DropCache(caches, dn.cache)
            /\ UNCHANGED arcs
       ELSE /\ caches' = ArcDropCache(caches, arcs.cache, dn.cache)
            /\ arcs' = [arcs EXCEPT !.cache = Dec(@)]
    /\ dn' = [dn EXCEPT !.pc = "returned"]
    /\ last' = [last EXCEPT !.res = "Ok",
                   !.calls = @ \o (IF dn.num_threads = 1 \/ arcs.cache = 1
                                   THEN <<"randomx_release_cache">> ELSE <<>>)]
    /\ UNCHANGED <<count, datasets, vms, workers, hashing, hashed>>

\* The caller has the result (or the panic) of RandomxDataset::new; the
\* detached workers of a panicked call have ended.
DNDone ==
    /\ dn.pc \in {"returned", "panicked"}
    /\ \A w \in Threads : workers[w].st # "run"
    /\ dn' = Idle
    /\ workers' = [w \in Threads |-> NoWorker]
    /\ UNCHANGED <<count, caches, datasets, vms, arcs, last, hashing, hashed>>

Next ==
    \/ \E f \in FlagSets, k \in Keys, r \in {NULL} \cup Fresh(FreeCache) :
          CacheNewCall(f, k, r)
    \/ \E c \in CacheIds : CacheDrop(c)
    \/ \E d \in DatasetIds : DatasetDrop(d)
    \/ \E f \in FlagSets, c \in CacheIds, r \in {NULL} \cup Fresh(FreeVm) :
          VmNew(f, c, r)
    \/ \E f \in FlagSets, d \in DatasetIds, r \in {NULL} \cup Fresh(FreeVm) :
          VmNewFast(f, d, r)
    \/ \E v \in VmIds : VmDrop(v)
    \/ \E f \in FlagSets, k \in Keys, n \in 0..MaxThreads : DNCall(f, k, n)
    \/ \E r \in {NULL} \cup Fresh(FreeCache) : DNCache(r)
    \/ \E r \in {NULL} \cup Fresh(FreeDataset) : DNAlloc(r)
    \/ DNSerial
    \/ DNSpawn
    \/ DNSpawnPanic
    \/ \E w \in Threads : WorkerWrite(w)
    \/ \E w \in Threads : WorkerExit(w)
    \/ DNJoin
    \/ DNUnwrap
    \/ DNReturn
    \/ DNDone

Spec == Init /\ [][Next]_vars

\* The same program with worker threads that may unwind.
NextFail == Next \/ \E w \in Threads : WorkerPanic(w)

SpecFail == Init /\ [][NextFail]_vars

\* RandomxDataset::new alone, called again and again, with worker threads
\* that may unwind; the caller drops the datasets it gets.
NextNew ==
    \/ \E f \in FlagSets, k \in Keys, n \in 0..MaxThreads : DNCall(f, k, n)
    \/ \E r \in {NULL} \cup Fresh(FreeCache) : DNCache(r)
    \/ \E r \in {NULL} \cup Fresh(FreeDataset) : DNAlloc(r)
    \/ DNSerial
    \/ DNSpawn
    \/ DNSpawnPanic
    \/ \E w \in Threads : WorkerWrite(w)
    \/ \E w \in Threads : WorkerExit(w)
    \/ \E w \in Threads : WorkerPanic(w)
    \/ DNJoin
    \/ DNUnwrap
    \/ DNReturn
    \/ DNDone
    \/ \E d \in DatasetIds : DatasetDrop(d)

SpecNew == Init /\ [][NextNew]_vars

\* ------------------------------------------------------------ flags.rs
MaxBitmask == 255         \* largest bitmask randomx_get_flags() returns

DEFAULT      == 0         \* randomx_flags_RANDOMX_FLAG_DEFAULT
LARGEPAGES   == 1         \* randomx_flags_RANDOMX_FLAG_LARGE_PAGES
JIT          == 8         \* randomx_flags_RANDOMX_FLAG_JIT
SECURE       == 16        \* randomx_flags_RANDOMX_FLAG_SECURE
ARGON2_SSSE3 == 32        \* randomx_flags_RANDOMX_FLAG_ARGON2_SSSE3
ARGON2_AVX2  == 64        \* randomx_flags_RANDOMX_FLAG_ARGON2_AVX2
ARGON2       == 96        \* randomx_flags_RANDOMX_FLAG_ARGON2

\* The flags the bitflags! block declares.
RandomxFlags == {DEFAULT, LARGEPAGES, HARDAES, FULLMEM, JIT, SECURE,
                 ARGON2_SSSE3, ARGON2_AVX2, ARGON2}

\* a | b, a & b and a & !b on unsigned integers.
RECURSIVE BitOr(_, _)
BitOr(a, b) ==
    IF a = 0 THEN b ELSE IF b = 0 THEN a
    ELSE (IF a % 2 = 1 \/ b % 2 = 1 THEN 1 ELSE 0) + 2 * BitOr(a \div 2, b \div 2)

RECURSIVE BitAnd(_, _)
BitAnd(a, b) ==
    IF a = 0 \/ b = 0 THEN 0
    ELSE (a % 2) * (b % 2) + 2 * BitAnd(a \div 2, b \div 2)

RECURSIVE BitAndNot(_, _)
BitAndNot(a, b) ==
    IF a = 0 THEN 0
    ELSE (a % 2) * (1 - (b % 2)) + 2 * BitAndNot(a \div 2, b \div 2)

\* RandomxFlags::all().bits(): the union of the declared flags.
RECURSIVE UnionBits(_)
UnionBits(fs) ==
    IF fs = {} THEN 0
    ELSE LET f == CHOOSE x \in fs : TRUE IN BitOr(f, UnionBits(fs \ {f}))

all == UnionBits(RandomxFlags)

None == [some |-> FALSE, bits |-> 0]
Some(bits) == [some |-> TRUE, bits |-> bits]

\* RandomxFlags::from_bits_truncate: the unknown bits are dropped.
from_bits_truncate(bits) == Some(BitAnd(bits, all))

\* RandomxFlags::from_bits: None when a bit outside all() is set.
from_bits(bits) == IF BitAndNot(bits, all) = 0 THEN Some(bits) ELSE None

\* RandomxFlags::default(): from_bits(randomx_get_flags()).unwrap(), bits
\* being what randomx_get_flags returns.
FlagsDefault(bits) ==
    /\ dn.pc = "idle"
    /\ LET r == from_bits(bits) IN
        last' = [op |-> "RandomxFlags::default",
                 flags |-> r.bits,
                 ret |-> bits,
                 res |-> IF r.some THEN "Ok" ELSE "panic",
                 calls |-> <<"randomx_get_flags">>]
    /\ UNCHANGED <<count, caches, datasets, vms, dn, workers, arcs,
                   hashing, hashed>>

NextFlags == \E bits \in 0..MaxBitmask : FlagsDefault(bits)

\* RandomxFlags::default() alone, over the bitmasks of the engine.
SpecFlags == Init /\ [][NextFlags]_vars

\* ------------------------------------------------------------ vm.rs: hash
\* The VM handles of the runs with hash calls: two VMs can be alive at once.
HashVmIds  == {1, 2}
FreeHashVm == {v \in HashVmIds : vms[v].h = "free"}

\* The dataset items a light VM computes from its cache.
LightItems(key) == [x \in 0..(count - 1) |-> Item(key, x)]

\* The handle VM v was created over is still allocated.
Backed(v) ==
    IF vms[v].cache # NULL THEN caches[vms[v].cache].h = "init"
    ELSE datasets[vms[v].dataset].h = "alloc"

\* The items VM v reads, and the key they come from.
VmItems(v) ==
    IF vms[v].cache # NULL THEN LightItems(caches[vms[v].cache].key)
    ELSE datasets[vms[v].dataset].mem
VmKey(v) ==
    IF vms[v].cache # NULL THEN caches[vms[v].cache].key
    ELSE datasets[vms[v].dataset].key

\* randomx_calculate_hash(self.vm, input, .., hash): the digest is a function
\* of the items read and of the input.  Over a released cache or dataset the
\* read is undefined: any of the junk digests.
randomx_calculate_hash(v, input, junk) ==
    IF Backed(v)
    THEN [ok |-> TRUE, items |-> VmItems(v), input |-> input, junk |-> 0]
    ELSE [ok |-> FALSE, items |-> [x \in 0..(count - 1) |-> Empty],
          input |-> input, junk |-> junk]

\* vm.hash(input) entered by thread t, with RandomxVm shared between threads.
HashBeginShared(t, v, input) ==
    /\ dn.pc = "idle"
    /\ vms[v].val = "owned"
    /\ hashing[t] = NoHash
    /\ hashing' = [hashing EXCEPT ![t] = [vm |-> v, input |-> input]]
    /\ UNCHANGED <<count, caches, datasets, vms, dn, workers, arcs, last, hashed>>

\* vm.hash(input) entered by thread t.  RandomxVm is Send and not Sync:
\* &self is held by one thread, so no other thread is in a call on v.
HashBegin(t, v, input) ==
    /\ dn.pc = "idle"
    /\ vms[v].val = "owned"
    /\ hashing[t] = NoHash
    /\ \A u \in Callers \ {t} : hashing[u].vm # v
    /\ hashing' = [hashing EXCEPT ![t] = [vm |-> v, input |-> input]]
    /\ UNCHANGED <<count, caches, datasets, vms, dn, workers, arcs, last, hashed>>

\* randomx_calculate_hash returns to thread t; hash.assume_init().
HashEnd(t, junk) ==
    /\ hashing[t] # NoHash
    /\ hashed' = [vm |-> hashing[t].vm,
                  key |-> VmKey(hashing[t].vm),
                  input |-> hashing[t].input,
                  digest |-> randomx_calculate_hash(hashing[t].vm,
                                                    hashing[t].input, junk)]
    /\ hashing' = [hashing EXCEPT ![t] = NoHash]
    /\ UNCHANGED <<count, caches, datasets, vms, dn, workers, arcs, last>>

\* The state after start-up, the engine's item count being the largest.
InitHash ==
    /\ count = MaxCount
    /\ caches = [c \in CacheIds |-> NoCache]
    /\ datasets = [d \in DatasetIds |-> NoDataset]
    /\ vms = [v \in HashVmIds |-> NoVm]
    /\ dn = Idle
    /\ workers = [w \in Threads |-> NoWorker]
    /\ arcs = [cache |-> 0, dataset |-> 0]
    /\ last = NoCall
    /\ hashing = [t \in Callers |-> NoHash]
    /\ hashed = NoHashed

\* The operations with the engine's allocations succeeding, flags that fit
\* each constructor, num_threads > 0, and RandomxDataset::new called while
\* no hash call is running.
NextHash ==
    \/ \E k \in Keys, r \in Fresh(FreeCache) : CacheNewCall(0, k, r)
    \/ \E c \in CacheIds : CacheDrop(c)
    \/ \E d \in DatasetIds : DatasetDrop(d)
    \/ \E c \in CacheIds, r \in Fresh(FreeHashVm) : VmNew(0, c, r)
    \/ \E d \in DatasetIds, r \in Fresh(FreeHashVm) : VmNewFast(FULLMEM, d, r)
    \/ \E v \in HashVmIds : VmDrop(v)
    \/ \E k \in Keys, n \in 1..MaxThreads :
          (\A t \in Callers : hashing[t] = NoHash) /\ DNCall(FULLMEM, k, n)
    \/ \E r \in Fresh(FreeCache) : DNCache(r)
    \/ \E r \in Fresh(FreeDataset) : DNAlloc(r)
    \/ DNSerial
    \/ DNSpawn
    \/ DNSpawnPanic
    \/ \E w \in Threads : WorkerWrite(w)
    \/ \E w \in Threads : WorkerExit(w)
    \/ DNJoin
    \/ DNUnwrap
    \/ DNReturn
    \/ DNDone
    \/ \E t \in Callers, v \in HashVmIds, x \in Inputs : HashBegin(t, v, x)
    \/ \E t \in Callers, j \in {1, 2} : HashEnd(t, j)

\* The crate with hash calls, made from two threads.
SpecHash == InitHash /\ [][NextHash]_vars

\* ------------------------------------------------------------ claims
Returned   == dn.pc = "returned"
ReturnedOk == dn.pc = "returned" /\ last.res = "Ok"
Called(f)  == \E k \in DOMAIN last.calls : last.calls[k] = f
NCalls(f)  == Cardinality({k \in DOMAIN last.calls : last.calls[k] = f})

\* C1: no live VM is bound to a Cache or Dataset whose native handle has
\* been released.
C1_NoVmOutlivesBacking ==
    \A v \in VmIds :
        vms[v].val = "owned" =>
            /\ vms[v].cache # NULL => caches[vms[v].cache].h # "released"
            /\ vms[v].dataset # NULL => datasets[vms[v].dataset].h # "released"

\* C2: RandomxDataset::new returns only after every worker it spawned has
\* ended its randomx_init_dataset call, and it returns Ok only with all
\* num_threads workers spawned and ended.
C2_ReturnAfterWorkers ==
    /\ Returned => \A w \in Threads : workers[w].st # "run"
    /\ (ReturnedOk /\ dn.num_threads > 1) =>
           \A w \in 1..dn.num_threads :
               workers[w].st = "done" /\ workers[w].pos = workers[w].size

C2_Witness ==
    /\ ReturnedOk
    /\ dn.num_threads = 2
    /\ \A w \in 1..2 : workers[w].st = "done" /\ workers[w].size > 0

\* The dataset memory randomx_init_dataset(dataset, cache, 0, count) leaves,
\* the cache being initialised from key: what num_threads == 1 produces.
SerialMem(key) ==
    InitDataset([NoDataset EXCEPT !.h = "alloc",
                                  !.mem = [x \in 0..(count - 1) |-> Empty]],
                [NoCache EXCEPT !.h = "init", !.key = key], 0, count).mem

\* C3: for every num_threads the dataset returned holds the content that
\* num_threads = 1 produces from the same key: every item of [0, count) is
\* populated from the transient cache, under every interleaving.
C3_ParallelEqualsSerial ==
    ReturnedOk =>
        /\ datasets[dn.dataset].mem = SerialMem(dn.key)
        /\ \A x \in 0..(count - 1) : datasets[dn.dataset].mem[x] = Item(dn.key, x)
        /\ ~datasets[dn.dataset].corrupt

C3_Witness ==
    /\ ReturnedOk
    /\ dn.num_threads = 2
    /\ count = 3
    /\ datasets[dn.dataset].mem = SerialMem(dn.key)

RECURSIVE SumSizes(_)
SumSizes(rs) == IF rs = <<>> THEN 0 ELSE Head(rs).size + SumSizes(Tail(rs))

\* The for loop over the partitions (or the single call) is over.
Partitioned == dn.dataset # NULL /\ dn.pc \in {"join", "unwrap", "ret", "returned"}

\* C4: the partition sizes sum to count; every partition but the last has
\* size count / num_threads, the last has that plus count % num_threads.
C4_PartitionSizes ==
    Partitioned =>
        /\ Len(dn.ranges) = dn.num_threads
        /\ SumSizes(dn.ranges) = count
        /\ \A k \in 1..(dn.num_threads - 1) :
               dn.ranges[k].size = count \div dn.num_threads
        /\ dn.ranges[dn.num_threads].size =
               (count \div dn.num_threads) + (count % dn.num_threads)

C4_Witness ==
    /\ Partitioned
    /\ dn.num_threads = 2
    /\ count = 3
    /\ dn.ranges = <<[start |-> 0, size |-> 1], [start |-> 1, size |-> 2]>>

\* C5: every handle the engine returned is released by exactly one release
\* call: never twice, and not left unreleased once the value owning it has
\* been dropped or its constructor has returned an error (or unwound and
\* its workers ended).
C5_ReleaseExactlyOnce ==
    /\ \A c \in CacheIds :
          /\ caches[c].rel <= 1
          /\ caches[c].h = "released" <=> caches[c].rel = 1
          /\ caches[c].val = "dropped" => caches[c].rel = 1
          /\ caches[c].h = "init" => caches[c].val = "owned"
    /\ \A d \in DatasetIds :
          /\ datasets[d].rel <= 1
          /\ datasets[d].h = "released" <=> datasets[d].rel = 1
          /\ datasets[d].val = "dropped" => datasets[d].rel = 1
          /\ datasets[d].h = "alloc" => datasets[d].val = "owned"
    /\ \A v \in VmIds :
          /\ vms[v].rel <= 1
          /\ vms[v].h = "destroyed" <=> vms[v].rel = 1
          /\ vms[v].val = "dropped" => vms[v].rel = 1
          /\ vms[v].h = "live" => vms[v].val = "owned"
    /\ (Returned /\ dn.cache # NULL) => caches[dn.cache].rel = 1
    /\ (Returned /\ dn.dataset # NULL) =>
          datasets[dn.dataset].rel = IF last.res = "Ok" THEN 0 ELSE 1
    /\ (dn.pc = "panicked" /\ dn.cache # NULL
          /\ \A w \in Threads : workers[w].st # "run") =>
          caches[dn.cache].rel = 1 /\ datasets[dn.dataset].rel = 1

C5_Witness ==
    /\ \A c \in 1..2 : caches[c].val = "dropped" /\ caches[c].rel = 1
    /\ \E d \in DatasetIds : datasets[d].val = "dropped" /\ datasets[d].rel = 1
    /\ \E v \in VmIds : vms[v].val = "dropped" /\ vms[v].rel = 1
    /\ dn.pc = "idle"

\* randomx_alloc_dataset returned null to RandomxDataset::new.
DatasetNull ==
    /\ last.op = "RandomxDataset::new"
    /\ Returned
    /\ Called("randomx_alloc_dataset")
    /\ last.ret = NULL

\* C6: with the transient cache built and a null dataset handle,
\* RandomxDataset::new returns DatasetAllocError, the transient cache has
\* been released exactly once, and randomx_release_dataset is not called.
C6_CacheReleasedOnDatasetNull ==
    DatasetNull =>
        /\ last.res = "DatasetAllocError"
        /\ dn.cache # NULL
        /\ caches[dn.cache].rel = 1
        /\ NCalls("randomx_release_cache") = 1
        /\ ~Called("randomx_release_dataset")
        /\ dn.dataset = NULL

C6_Witness ==
    /\ DatasetNull
    /\ last.res = "DatasetAllocError"
    /\ caches[dn.cache].h = "released"

\* C7: RandomxDataset::new with num_threads = 0 is rejected (it panics)
\* before any engine call: no allocation, no worker.
C7_ZeroThreadsRejected ==
    (last.op = "RandomxDataset::new" /\ dn.pc # "idle" /\ dn.num_threads = 0) =>
        /\ dn.pc = "panicked"
        /\ last.res = "panic"
        /\ last.calls = <<>>
        /\ dn.cache = NULL /\ dn.dataset = NULL
        /\ \A w \in Threads : workers[w].st = "none"

C7_Witness ==
    /\ last.op = "RandomxDataset::new"
    /\ dn.pc = "panicked"
    /\ dn.num_threads = 0
    /\ last.calls = <<>>

\* The last call was RandomxVm::new with FULLMEM, or new_fast without it.
FlagMismatch ==
    \/ last.op = "RandomxVm::new" /\ last.flags \in {FULLMEM, FULLMEM + HARDAES}
    \/ last.op = "RandomxVm::new_fast" /\ last.flags \notin {FULLMEM, FULLMEM + HARDAES}

C8_Rejected ==
    FlagMismatch => last.res = "VmAllocError" /\ last.calls = <<>>

C8_Frame ==
    (last' # last /\ FlagMismatch') => UNCHANGED <<caches, datasets, vms>>

\* C8: RandomxVm::new with FULLMEM and RandomxVm::new_fast without FULLMEM
\* return VmAllocError without calling randomx_create_vm and leave the
\* caches, datasets and VMs unchanged.
C8_FlagMismatchFailsFast == []C8_Rejected /\ [][C8_Frame]_vars

C8_Witness ==
    /\ last.op = "RandomxVm::new"
    /\ last.flags = FULLMEM + HARDAES
    /\ last.res = "VmAllocError"
    /\ last.calls = <<>>
    /\ \E c \in CacheIds : UserCache(c)

\* C9: when a worker of RandomxDataset::new has failed (its join returns
\* Err), RandomxDataset::new returns DatasetAllocError.
C9_WorkerFailureSurfaced ==
    (Returned /\ \E w \in Threads : workers[w].st = "panicked") =>
        last.res = "DatasetAllocError"

C10_NullToError ==
    /\ (last.op = "RandomxCache::new" /\ last.ret = NULL) =>
          last.res = "CacheAllocError" /\ last.calls = <<"randomx_alloc_cache">>
    /\ (last.op = "RandomxDataset::new" /\ dn.pc \notin {"idle", "cache", "panicked"}
          /\ dn.cache = NULL) =>
          /\ Returned
          /\ last.res = "CacheAllocError"
          /\ last.calls = <<"randomx_alloc_cache">>
    /\ DatasetNull =>
          /\ last.res = "DatasetAllocError"
          /\ NCalls("randomx_alloc_dataset") = 1
          /\ ~Called("randomx_init_dataset")
          /\ ~Called("randomx_dataset_item_count")
          /\ \A w \in Threads : workers[w].st = "none"
    /\ (last.op \in {"RandomxVm::new", "RandomxVm::new_fast"}
          /\ Called("randomx_create_vm") /\ last.ret = NULL) =>
          last.res = "VmAllocError" /\ last.calls = <<"randomx_create_vm">>

C10_NoValue ==
    (last' # last /\ last'.op \in {"RandomxVm::new", "RandomxVm::new_fast"}
       /\ last'.ret = NULL) => vms' = vms

\* C10: a null handle from the engine becomes the error of the operation
\* that asked for it, at once: after a null randomx_alloc_cache no
\* randomx_init_cache, after a null randomx_alloc_dataset no
\* randomx_init_dataset, after a null randomx_create_vm no RandomxVm.
C10_NullHandleIsError == []C10_NullToError /\ [][C10_NoValue]_vars

C10_Witness ==
    /\ last.op = "RandomxVm::new"
    /\ last.calls = <<"randomx_create_vm">>
    /\ last.ret = NULL
    /\ last.res = "VmAllocError"

\* RandomxDataset::new has returned from the failure of its transient
\* RandomxCache::new.
CachePhaseFailed ==
    /\ last.op = "RandomxDataset::new"
    /\ Returned
    /\ dn.cache = NULL

\* C11: a failure of the transient cache is returned by RandomxDataset::new
\* as CacheAllocError (the cache constructor's own error, after the cache
\* allocation alone), a null dataset allocation as DatasetAllocError: the
\* two failures never share an error value.
C11_CachePhaseErrorDistinct ==
    /\ CachePhaseFailed =>
          /\ last.res = "CacheAllocError"
          /\ ~Called("randomx_alloc_dataset")
    /\ DatasetNull => last.res = "DatasetAllocError" /\ dn.cache # NULL
    /\ ~(CachePhaseFailed /\ DatasetNull)

C11_Witness ==
    /\ CachePhaseFailed
    /\ last.res = "CacheAllocError"
    /\ last.calls = <<"randomx_alloc_cache">>
    /\ dn.num_threads = 2

\* The item indices of range r, and those worker w has written so far.
Indices(r)  == r.start .. (r.start + r.size - 1)
Written(w)  == workers[w].start .. (workers[w].start + workers[w].pos - 1)

\* C16: with num_threads > 1 the ranges handed to the workers are
\* contiguous (the first starts at 0, each next one where the previous
\* ended), pairwise disjoint, and together they are [0, count): every item
\* index lies in exactly one range, and no two workers write the same index.
C16_RangesContiguousDisjoint ==
    (dn.dataset # NULL /\ dn.num_threads > 1) =>
        /\ \A k \in DOMAIN dn.ranges :
               dn.ranges[k].start =
                   IF k = 1 THEN 0
                   ELSE dn.ranges[k - 1].start + dn.ranges[k - 1].size
        /\ \A w \in Threads :
               workers[w].st # "none" =>
                   /\ [start |-> workers[w].start, size |-> workers[w].size]
                          = dn.ranges[w]
                   /\ Written(w) \subseteq Indices(dn.ranges[w])
        /\ \A w1, w2 \in Threads :
               w1 # w2 => Written(w1) \cap Written(w2) = {}
        /\ Partitioned =>
               /\ dn.ranges[dn.num_threads].start
                      + dn.ranges[dn.num_threads].size = count
               /\ \A x \in 0..(count - 1) :
                      Cardinality({k \in DOMAIN dn.ranges :
                                      x \in Indices(dn.ranges[k])}) = 1

C16_Witness ==
    /\ Partitioned
    /\ dn.num_threads = 2
    /\ count = 3
    /\ Written(1) = {0}
    /\ Written(2) = {1, 2}
    /\ dn.pc = "join"

\* Some worker of the call was handed a range of no item.
ZeroSized == \E k \in DOMAIN dn.ranges : dn.ranges[k].size = 0

\* C17: a range of size 0 is handed out only when count < num_threads; the
\* worker of such a range writes nothing and ends, and RandomxDataset::new
\* then returns Ok with every item of [0, count) populated.
C17_ZeroSizedOnlyWhenFewItems ==
    (dn.dataset # NULL /\ dn.num_threads > 1) =>
        /\ ZeroSized => count < dn.num_threads
        /\ \A w \in Threads :
               (workers[w].st # "none" /\ workers[w].size = 0) =>
                   workers[w].pos = 0 /\ Written(w) = {}
        /\ (Returned /\ ZeroSized) =>
               /\ last.res = "Ok"
               /\ NCalls("randomx_init_dataset") = dn.num_threads
               /\ \A x \in 0..(count - 1) :
                      datasets[dn.dataset].mem[x] = Item(dn.key, x)
               /\ ~datasets[dn.dataset].corrupt

C17_Witness ==
    /\ ReturnedOk
    /\ dn.num_threads = 2
    /\ count = 1
    /\ dn.ranges = <<[start |-> 0, size |-> 0], [start |-> 0, size |-> 1]>>
    /\ workers[1].st = "done"
    /\ datasets[dn.dataset].mem[0] = Item(dn.key, 0)

\* C18: the transient cache of RandomxDataset::new is released exactly once,
\* only when no randomx_init_dataset call reading it is still running (on
\* the Ok path: after the single call, or after all num_threads workers have
\* ended), and by the time the constructor returns; no strong reference to
\* it is left and the returned dataset is the caller's alone.
C18_TransientCacheReleased ==
    dn.cache # NULL =>
        /\ caches[dn.cache].rel <= 1
        /\ caches[dn.cache].h = "released" =>
               /\ \A w \in Threads : workers[w].st # "run"
               /\ arcs.cache = 0
        /\ (caches[dn.cache].h = "released" /\ last.res = "Ok") =>
               /\ Returned
               /\ Called("randomx_init_dataset")
               /\ \A w \in 1..dn.num_threads :
                      dn.num_threads > 1 =>
                          workers[w].st = "done" /\ workers[w].pos = workers[w].size
        /\ Returned =>
               /\ caches[dn.cache].h = "released"
               /\ caches[dn.cache].rel = 1
               /\ NCalls("randomx_release_cache") = 1
        /\ ReturnedOk =>
               /\ datasets[dn.dataset].h = "alloc"
               /\ arcs.dataset = 0
               /\ ~datasets[dn.dataset].corrupt

C18_Witness ==
    /\ ReturnedOk
    /\ dn.num_threads = 2
    /\ caches[dn.cache].h = "released"
    /\ caches[dn.cache].rel = 1
    /\ datasets[dn.dataset].h = "alloc"
    /\ last.calls[Len(last.calls)] = "randomx_release_cache"

\* C19: while any spawned worker is running, neither the transient cache
\* nor the dataset has been released, also when a worker unwinds; the
\* constructor gets past its join loop, and returns, only with every one of
\* the num_threads workers ended, failed or not.
C19_NoReleaseWhileWorkersRun ==
    /\ \A w \in Threads :
           workers[w].st = "run" =>
               /\ caches[dn.cache].h = "init" /\ caches[dn.cache].rel = 0
               /\ datasets[dn.dataset].h = "alloc" /\ datasets[dn.dataset].rel = 0
               /\ arcs.cache > 0 /\ arcs.dataset > 0
    /\ (dn.pc \in {"unwrap", "ret", "returned"} /\ dn.num_threads > 1
           /\ dn.dataset # NULL) =>
           /\ dn.j = dn.num_threads
           /\ \A w \in 1..dn.num_threads : workers[w].st \in {"done", "panicked"}
    /\ dn.dataset # NULL => ~datasets[dn.dataset].corrupt

C19_Witness ==
    /\ Returned
    /\ dn.num_threads = 2
    /\ workers[1].st = "panicked"
    /\ workers[2].st = "done"
    /\ dn.j = 2
    /\ caches[dn.cache].h = "released"

\* C20: Arc::try_unwrap(dataset_arc) is reached with one strong reference,
\* so its Err branch is never taken: once the dataset is allocated, a
\* RandomxDataset::new that returns returns Ok, and its only Err results
\* are CacheAllocError (transient cache) and DatasetAllocError (null
\* dataset allocation).
C20_TryUnwrapNeverFails ==
    /\ dn.pc = "unwrap" => arcs.dataset = 1 /\ arcs.cache = 1
    /\ (last.op = "RandomxDataset::new" /\ Returned) =>
           /\ dn.dataset # NULL => last.res = "Ok"
           /\ last.res # "Ok" =>
                  \/ last.res = "CacheAllocError" /\ CachePhaseFailed
                  \/ last.res = "DatasetAllocError" /\ DatasetNull

C20_Witness ==
    /\ dn.pc = "unwrap"
    /\ dn.num_threads = 2
    /\ arcs.dataset = 1
    /\ dn.j = 2
    /\ count = 3

\* The positions of the bits set in x, counted from k.
RECURSIVE BitsFrom(_, _)
BitsFrom(x, k) ==
    IF x = 0 THEN {}
    ELSE (IF x % 2 = 1 THEN {k} ELSE {}) \cup BitsFrom(x \div 2, k + 1)

\* The bit positions some declared flag has.
KnownBits == UNION {BitsFrom(f, 0) : f \in RandomxFlags}

\* C15: RandomxFlags::default() panics when the bitmask of
\* randomx_get_flags() has a bit no declared flag has, and else returns a
\* RandomxFlags of exactly that bitmask.
C15_DefaultExactOrPanic ==
    last.op = "RandomxFlags::default" =>
        /\ last.calls = <<"randomx_get_flags">>
        /\ IF BitsFrom(last.ret, 0) \subseteq KnownBits
           THEN last.res = "Ok" /\ last.flags = last.ret
           ELSE last.res = "panic"

C15_Witness ==
    /\ last.op = "RandomxFlags::default"
    /\ last.ret = 130
    /\ last.res = "panic"

\* A hash call has returned after an earlier one with the same input, on
\* the same VM or on a VM whose items come from the same key.
SameKeyAndInput ==
    /\ hashed' # hashed
    /\ hashed.vm # NULL
    /\ hashed'.input = hashed.input
    /\ \/ hashed'.vm = hashed.vm
       \/ hashed'.key = hashed.key /\ hashed.key # 0

C12_Step == SameKeyAndInput => hashed'.digest = hashed.digest

\* C12: for the same key and the same input, hash returns the same digest
\* on a light VM and on a fast VM, and again on the same VM.
C12_SameDigest == [][C12_Step]_vars

\* The digests agree as long as what the VMs were created over is allocated.
HashAgreesWhileBacked ==
    [][(SameKeyAndInput /\ hashed.digest.ok /\ hashed'.digest.ok)
          => hashed'.digest = hashed.digest]_vars

C13_Frame ==
    /\ \A v \in HashVmIds :
          (vms[v].h = "live" /\ vms'[v].h = "destroyed") =>
              /\ vms'[v].rel = 1
              /\ caches' = caches
              /\ datasets' = datasets
              /\ \A u \in HashVmIds \ {v} : vms'[u] = vms[u]
    /\ (hashing' # hashing \/ hashed' # hashed) =>
          /\ caches' = caches
          /\ datasets' = datasets
          /\ vms' = vms
    /\ (hashed' # hashed /\ Backed(hashed'.vm)) =>
          /\ hashed'.digest.ok
          /\ hashed'.digest.items = VmItems(hashed'.vm)

\* C13: dropping a VM destroys that VM's handle alone, once: no cache, no
\* dataset and no other VM changes, and a hash call changes none of them;
\* a VM over a cache or dataset still allocated hashes from its items.
C13_VmDropReleasesOnlyVm == [][C13_Frame]_vars

C13_Witness ==
    /\ vms[1].h = "destroyed"
    /\ vms[2].h = "live"
    /\ vms[1].cache # NULL
    /\ vms[2].cache = vms[1].cache
    /\ caches[vms[1].cache].h = "init"
    /\ hashed.vm = 2
    /\ hashed.digest.ok

C14_NoOverlap ==
    \A t, u \in Callers :
        (t # u /\ hashing[t] # NoHash /\ hashing[u] # NoHash) =>
            hashing[t].vm # hashing[u].vm

C14_NoWrite ==
    \A d \in DatasetIds :
        (UserDataset(d) /\ datasets'[d].h = "alloc") => datasets'[d] = datasets[d]

\* C14: no two threads are in a hash call on the same VM at once (calls on
\* two VMs over one dataset do run at once), and a dataset that
\* RandomxDataset::new has returned is not written again.
C14_HashCallsDoNotOverlap == []C14_NoOverlap /\ [][C14_NoWrite]_vars

C14_Witness ==
    /\ hashing[1].vm = 1
    /\ hashing[2].vm = 2
    /\ vms[1].dataset # NULL
    /\ vms[2].dataset = vms[1].dataset
    /\ datasets[vms[1].dataset].h = "alloc"
    /\ datasets[vms[1].dataset].mem = SerialMem(datasets[vms[1].dataset].key)
=============================================================================
